---- MODULE Spec2Model ----
(***************************************************************************)
(* Model of the mcp-factor front end: the client state store (zustand),    *)
(* the localStorage persistence helper, the in-memory mock API client and  *)
(* the HTTP proxy route.                                                   *)
(***************************************************************************)
EXTENDS Integers, Sequences, FiniteSets, TLC

VARIABLES
    currentMCP,     \* store: the integration being edited, or null
    selectedNode,   \* store: the selected flow node, or null
    storeOp,        \* history: the store operation that acted last
    hasWindow,      \* persistence: typeof window !== 'undefined' (a browser context)
    localStorage,   \* persistence: the browser's key-value storage, key -> stored text
    lastSaved,      \* history: id -> the value last saved and not deleted or corrupted since
    corrupted,      \* history: the ids whose stored record was made unparseable
    storageOp,      \* history: the persistence call that ran last, with what it returned
    mockMCPs,       \* mock client: the backing array
    pending,        \* mock client: the calls suspended at an await, each with its due time
    now,            \* mock client: Date.now(), in milliseconds
    ncalls,         \* history: the number of calls made so far
    lastDone,       \* history: the step of a call that has just run, its result and the array before
    exchange        \* history: the proxy's last request, what it sent on and what it answered

storeVars == <<currentMCP, selectedNode, storeOp>>

storageVars == <<hasWindow, localStorage, lastSaved, corrupted, storageOp>>

clientVars == <<mockMCPs, pending, now, ncalls, lastDone>>

\* what a store operation, a persistence call and a mock client step leave alone
notStore == <<storageVars, clientVars, exchange>>

notStorage == <<storeVars, clientVars, exchange>>

notClient == <<storeVars, storageVars, exchange>>

notProxy == <<storeVars, storageVars, clientVars>>

vars == <<currentMCP, selectedNode, storeOp,
          hasWindow, localStorage, lastSaved, corrupted, storageOp,
          mockMCPs, pending, now, ncalls, lastDone, exchange>>

(***************************************************************************)
(* JavaScript values.  Objects are functions from property names to        *)
(* values, arrays are sequences, strings are strings.                      *)
(***************************************************************************)

\* JavaScript's null
null == [isNull |-> TRUE]

\* { ...a, ...b }: the properties of a overlaid with those of b
Spread(a, b) ==
    [k \in (DOMAIN a) \cup (DOMAIN b) |-> IF k \in DOMAIN b THEN b[k] ELSE a[k]]

\* the set of ids occurring in an array
IdSet(s) == {s[i].id : i \in 1..Len(s)}

\* no id occurs twice in the array
NoDuplicateIds(s) == \A i, j \in 1..Len(s) : s[i].id = s[j].id => i = j

(***************************************************************************)
(* Bounds and input sets of the store                                      *)
(***************************************************************************)

\* at most this many child elements are held over the three collections
MaxChildren == 2

ChildIds == {"a", "b"}

\* APIConfig / MCPTool / MCPPrompt values offered to the add operations
ChildItems == {[id |-> i, name |-> "n1"] : i \in ChildIds}

\* Partial<APIConfig> etc. offered to the update operations
ChildUpdates == {[name |-> "n2"], [name |-> "n3"]}

MkMCP(id, apis, tools, prompts) ==
    [id |-> id, name |-> "M", published |-> FALSE,
     apis |-> apis, tools |-> tools, prompts |-> prompts]

\* integrations offered to setCurrentMCP: child ids unique within a collection
SampleMCPs ==
    { MkMCP("m1", <<>>, <<>>, <<>>),
      MkMCP("m2", <<[id |-> "a", name |-> "n1"]>>, <<>>, <<[id |-> "b", name |-> "n1"]>>) }

\* Partial<MCPIntegration> offered to the store's updateMCP
MCPUpdates == {[name |-> "renamed"], [apis |-> <<>>]}

FlowNodes == {[id |-> "node1"]}

ChildCount(m) == Len(m.apis) + Len(m.tools) + Len(m.prompts)

\* what the held state looked like before the operation acted
Before == [hadMCP |-> currentMCP # null, hadNode |-> selectedNode # null]

(***************************************************************************)
(* Client state store                                                      *)
(***************************************************************************)

\* zustand set(partial): merge the partial into the state
StoreInit ==
    /\ currentMCP = null
    /\ selectedNode = null
    /\ storeOp = [op |-> "init"]

setCurrentMCP_KeepsSelection(mcp) ==
    /\ currentMCP' = mcp
    /\ selectedNode' = selectedNode
    /\ storeOp' = [op |-> "setCurrentMCP", arg |-> mcp, before |-> Before]
    /\ UNCHANGED notStore

setCurrentMCP(mcp) ==
    /\ currentMCP' = mcp
    /\ selectedNode' = null
    /\ storeOp' = [op |-> "setCurrentMCP", arg |-> mcp, before |-> Before]
    /\ UNCHANGED notStore

\* updateMCP without the null test: spreads the updates over nothing
updateMCP_NoNullTest(updates) ==
    /\ currentMCP' = IF currentMCP # null THEN Spread(currentMCP, updates)
                     ELSE updates
    /\ storeOp' = [op |-> "updateMCP", arg |-> updates, before |-> Before]
    /\ UNCHANGED <<selectedNode, notStore>>

updateMCP(updates) ==
    /\ currentMCP' = IF currentMCP # null THEN Spread(currentMCP, updates) ELSE null
    /\ storeOp' = [op |-> "updateMCP", arg |-> updates, before |-> Before]
    /\ UNCHANGED <<selectedNode, notStore>>

addAPI(api) ==
    /\ currentMCP # null => ChildCount(currentMCP) < MaxChildren
    /\ currentMCP' = IF currentMCP # null
                     THEN Spread(currentMCP, [apis |-> currentMCP.apis \o <<api>>])
                     ELSE null
    /\ storeOp' = [op |-> "addAPI", kind |-> "apis", id |-> api.id, before |-> Before]
    /\ UNCHANGED <<selectedNode, notStore>>

updateAPI(id, updates) ==
    /\ currentMCP' = IF currentMCP # null
                     THEN Spread(currentMCP,
                            [apis |-> [i \in 1..Len(currentMCP.apis) |->
                                IF currentMCP.apis[i].id = id
                                THEN Spread(currentMCP.apis[i], updates)
                                ELSE currentMCP.apis[i]]])
                     ELSE null
    /\ storeOp' = [op |-> "updateAPI", kind |-> "apis", id |-> id, before |-> Before]
    /\ UNCHANGED <<selectedNode, notStore>>

deleteAPI(id) ==
    /\ currentMCP' = IF currentMCP # null
                     THEN Spread(currentMCP,
                            [apis |-> SelectSeq(currentMCP.apis, LAMBDA api : api.id # id)])
                     ELSE null
    /\ storeOp' = [op |-> "deleteAPI", kind |-> "apis", id |-> id, before |-> Before]
    /\ UNCHANGED <<selectedNode, notStore>>

addTool(tool) ==
    /\ currentMCP # null => ChildCount(currentMCP) < MaxChildren
    /\ currentMCP' = IF currentMCP # null
                     THEN Spread(currentMCP, [tools |-> currentMCP.tools \o <<tool>>])
                     ELSE null
    /\ storeOp' = [op |-> "addTool", kind |-> "tools", id |-> tool.id, before |-> Before]
    /\ UNCHANGED <<selectedNode, notStore>>

updateTool(id, updates) ==
    /\ currentMCP' = IF currentMCP # null
                     THEN Spread(currentMCP,
                            [tools |-> [i \in 1..Len(currentMCP.tools) |->
                                IF currentMCP.tools[i].id = id
                                THEN Spread(currentMCP.tools[i], updates)
                                ELSE currentMCP.tools[i]]])
                     ELSE null
    /\ storeOp' = [op |-> "updateTool", kind |-> "tools", id |-> id, before |-> Before]
    /\ UNCHANGED <<selectedNode, notStore>>

deleteTool(id) ==
    /\ currentMCP' = IF currentMCP # null
                     THEN Spread(currentMCP,
                            [tools |-> SelectSeq(currentMCP.tools, LAMBDA tool : tool.id # id)])
                     ELSE null
    /\ storeOp' = [op |-> "deleteTool", kind |-> "tools", id |-> id, before |-> Before]
    /\ UNCHANGED <<selectedNode, notStore>>

addPrompt(prompt) ==
    /\ currentMCP # null => ChildCount(currentMCP) < MaxChildren
    /\ currentMCP' = IF currentMCP # null
                     THEN Spread(currentMCP, [prompts |-> currentMCP.prompts \o <<prompt>>])
                     ELSE null
    /\ storeOp' = [op |-> "addPrompt", kind |-> "prompts", id |-> prompt.id, before |-> Before]
    /\ UNCHANGED <<selectedNode, notStore>>

updatePrompt(id, updates) ==
    /\ currentMCP' = IF currentMCP # null
                     THEN Spread(currentMCP,
                            [prompts |-> [i \in 1..Len(currentMCP.prompts) |->
                                IF currentMCP.prompts[i].id = id
                                THEN Spread(currentMCP.prompts[i], updates)
                                ELSE currentMCP.prompts[i]]])
                     ELSE null
    /\ storeOp' = [op |-> "updatePrompt", kind |-> "prompts", id |-> id, before |-> Before]
    /\ UNCHANGED <<selectedNode, notStore>>

deletePrompt(id) ==
    /\ currentMCP' = IF currentMCP # null
                     THEN Spread(currentMCP,
                            [prompts |-> SelectSeq(currentMCP.prompts,
                                                   LAMBDA prompt : prompt.id # id)])
                     ELSE null
    /\ storeOp' = [op |-> "deletePrompt", kind |-> "prompts", id |-> id, before |-> Before]
    /\ UNCHANGED <<selectedNode, notStore>>

selectNode(node) ==
    /\ selectedNode' = node
    /\ storeOp' = [op |-> "selectNode", arg |-> node, before |-> Before]
    /\ UNCHANGED <<currentMCP, notStore>>

StoreNext ==
    \/ \E m \in SampleMCPs \cup {null} : setCurrentMCP(m)
    \/ \E u \in MCPUpdates : updateMCP(u)
    \/ \E c \in ChildItems : addAPI(c)
    \/ \E i \in ChildIds, u \in ChildUpdates : updateAPI(i, u)
    \/ \E i \in ChildIds : deleteAPI(i)
    \/ \E c \in ChildItems : addTool(c)
    \/ \E i \in ChildIds, u \in ChildUpdates : updateTool(i, u)
    \/ \E i \in ChildIds : deleteTool(i)
    \/ \E c \in ChildItems : addPrompt(c)
    \/ \E i \in ChildIds, u \in ChildUpdates : updatePrompt(i, u)
    \/ \E i \in ChildIds : deletePrompt(i)
    \/ \E n \in FlowNodes \cup {null} : selectNode(n)

(***************************************************************************)
(* Local persistence helper.  A stored text is either the JSON text of a   *)
(* value or text that JSON.parse rejects.  A parsed value carries its      *)
(* kind: an array has includes/filter/map, an object has none of them.     *)
(***************************************************************************)

MCP_STORAGE_PREFIX == "mcp_"

MCP_LIST_KEY == "mcp_list"

\* JavaScript's undefined
undefined == [isUndefined |-> TRUE]

\* a number
Num(x) == [num |-> x]

\* the numbers JSON has no notation for
NonFinite == {Num("NaN"), Num("Infinity")}

NumberFields == {"stars", "temperature", "maxTokens"}

\* JSON.stringify of an object: a property holding undefined is left out, a
\* non-finite number is written as null, nested objects are written the same way
RECURSIVE JSONOf(_)
JSONOf(obj) ==
    [k \in {j \in DOMAIN obj : ~(j \in NumberFields /\ obj[j] = undefined)} |->
        IF k \in NumberFields
        THEN (IF obj[k] \in NonFinite THEN null ELSE obj[k])
        ELSE IF k = "configuration" THEN JSONOf(obj[k])
        ELSE obj[k]]

\* the stored text of an integration
StringifyMCP(mcp) == [text |-> "json", kind |-> "object", v |-> JSONOf(mcp)]

\* the stored text of the id list (strings are written as they are)
StringifyList(list) == [text |-> "json", kind |-> "array", v |-> list]

\* text that JSON.parse throws on
Garbage == [text |-> "garbage"]

\* JSON.parse returns normally
Parses(t) == t.text = "json"

\* what JSON.parse returns
JSONParse(t) == [kind |-> t.kind, v |-> t.v]

EmptyArray == [kind |-> "array", v |-> <<>>]

\* localStorage.setItem / removeItem / getItem
SetItem(ls, key, t) == [k \in (DOMAIN ls) \cup {key} |-> IF k = key THEN t ELSE ls[k]]

RemoveItem(ls, key) == [k \in (DOMAIN ls) \ {key} |-> ls[k]]

GetItem(ls, key) == IF key \in DOMAIN ls THEN ls[key] ELSE null

\* the key of an integration's record
KeyOf(id) == MCP_STORAGE_PREFIX \o id

Range(seq) == {seq[i] : i \in 1..Len(seq)}

\* getMCPList with the storage as it is after the caller's earlier writes
getMCPList(ls) ==
    IF ~hasWindow THEN EmptyArray
    ELSE LET data == GetItem(ls, MCP_LIST_KEY)
         IN  IF data = null THEN EmptyArray
             ELSE IF Parses(data) THEN JSONParse(data)
             ELSE EmptyArray            \* the catch

\* the storage saveMCPToStorage leaves behind
SaveResult_KeepsNoRecord(ls, mcp) ==
    LET list == getMCPList(ls)
    IN  IF list.kind # "array" THEN ls
        ELSE IF mcp.id \in Range(list.v) THEN ls
        ELSE SetItem(ls, MCP_LIST_KEY, StringifyList(Append(list.v, mcp.id)))

SaveResult(ls, mcp) ==
    LET ls1  == SetItem(ls, KeyOf(mcp.id), StringifyMCP(mcp))
        list == getMCPList(ls1)
    IN  IF list.kind # "array" THEN ls1            \* list.includes is not a function
        ELSE IF mcp.id \in Range(list.v) THEN ls1
        ELSE SetItem(ls1, MCP_LIST_KEY, StringifyList(Append(list.v, mcp.id)))

\* what loadMCPFromStorage(id) returns on storage ls
LoadResult(ls, id) ==
    IF ~hasWindow THEN null
    ELSE LET data == GetItem(ls, KeyOf(id))
         IN  IF data = null THEN null
             ELSE IF Parses(data) THEN JSONParse(data)
             ELSE null                  \* the catch

\* what getAllMCPs() returns on storage ls
GetAllResult(ls) ==
    IF ~hasWindow THEN <<>>
    ELSE LET list == getMCPList(ls)
         IN  IF list.kind # "array" THEN <<>>      \* list.map is not a function
             ELSE SelectSeq([i \in 1..Len(list.v) |-> LoadResult(ls, list.v[i])],
                            LAMBDA mcp : mcp # null)

\* the storage deleteMCPFromStorage leaves behind
DeleteResult(ls, id) ==
    LET ls1  == RemoveItem(ls, KeyOf(id))
        list == getMCPList(ls1)
    IN  IF list.kind # "array" THEN ls1            \* list.filter is not a function
        ELSE SetItem(ls1, MCP_LIST_KEY,
                     StringifyList(SelectSeq(list.v, LAMBDA mcpId : mcpId # id)))

Without(f, x) == [k \in (DOMAIN f) \ {x} |-> f[k]]

saveMCPToStorage(mcp) ==
    /\ localStorage' = IF ~hasWindow THEN localStorage ELSE SaveResult(localStorage, mcp)
    /\ lastSaved' = IF ~hasWindow THEN lastSaved
                    ELSE [k \in (DOMAIN lastSaved) \cup {mcp.id} |->
                            IF k = mcp.id THEN mcp ELSE lastSaved[k]]
    /\ corrupted' = corrupted \ {mcp.id}
    /\ storageOp' = [op |-> "save", id |-> mcp.id, value |-> undefined]
    /\ UNCHANGED <<hasWindow, notStorage>>

loadMCPFromStorage(id) ==
    /\ storageOp' = [op |-> "load", id |-> id, value |-> LoadResult(localStorage, id)]
    /\ UNCHANGED <<hasWindow, localStorage, lastSaved, corrupted, notStorage>>

getAllMCPs ==
    /\ storageOp' = [op |-> "getAll", id |-> "", value |-> GetAllResult(localStorage)]
    /\ UNCHANGED <<hasWindow, localStorage, lastSaved, corrupted, notStorage>>

deleteMCPFromStorage(id) ==
    /\ localStorage' = IF ~hasWindow THEN localStorage ELSE DeleteResult(localStorage, id)
    /\ lastSaved' = Without(lastSaved, id)
    /\ corrupted' = corrupted \ {id}
    /\ storageOp' = [op |-> "delete", id |-> id, value |-> undefined]
    /\ UNCHANGED <<hasWindow, notStorage>>

\* the environment damages the stored record of one saved id
CorruptEntry(id) ==
    /\ hasWindow
    /\ id \in (DOMAIN lastSaved) \cup corrupted
    /\ KeyOf(id) \in DOMAIN localStorage
    /\ localStorage' = SetItem(localStorage, KeyOf(id), Garbage)
    /\ lastSaved' = Without(lastSaved, id)
    /\ corrupted' = corrupted \cup {id}
    /\ storageOp' = [op |-> "corrupt", id |-> id, value |-> undefined]
    /\ UNCHANGED <<hasWindow, notStorage>>

(***************************************************************************)
(* Input sets of the persistence helper                                    *)
(***************************************************************************)

StorageIds == {"1", "2", "list"}

BaseMCP(id, name) ==
    [id |-> id, name |-> name,
     configuration |-> [model |-> "gpt-3.5-turbo", temperature |-> Num("0.7")]]

\* MCPIntegration values offered to saveMCPToStorage
StorageMCPs ==
    UNION { { BaseMCP(id, "A"),
              BaseMCP(id, "B"),
              Spread(BaseMCP(id, "A"),
                     [configuration |-> [model |-> "gpt-4", temperature |-> Num("NaN")]]),
              Spread(BaseMCP(id, "A"), [stars |-> undefined]) } : id \in StorageIds }

StorageInit ==
    /\ hasWindow \in BOOLEAN
    /\ localStorage = <<>>
    /\ lastSaved = <<>>
    /\ corrupted = {}
    /\ storageOp = [op |-> "init"]

StorageNext ==
    \/ \E m \in StorageMCPs : saveMCPToStorage(m)
    \/ \E i \in StorageIds : loadMCPFromStorage(i)
    \/ getAllMCPs
    \/ \E i \in StorageIds : deleteMCPFromStorage(i)
    \/ \E i \in StorageIds : CorruptEntry(i)

(***************************************************************************)
(* The persistence helper on a storage whose calls may throw (quota        *)
(* exceeded, access denied, a value JSON cannot write or read).  A set f   *)
(* names the calls that throw during one operation.  Every try block is a  *)
(* definition of its own, and Catch is the catch block that follows it.    *)
(***************************************************************************)

\* the calls that may throw: JSON.stringify(mcp), setItem of the record,
\* the write of the index, getItem and JSON.parse of the index, getItem and
\* JSON.parse of a record, removeItem
FaultSites ==
    {"stringify", "setItem", "setList", "getList", "parseList", "getItem", "parse",
     "removeItem"}

\* how a block ends: by an exception, or normally with a value
Raised(ls) == [raised |-> TRUE, ls |-> ls, value |-> undefined, caught |-> FALSE]

Returned(ls, value, caught) == [raised |-> FALSE, ls |-> ls, value |-> value, caught |-> caught]

\* a block that lets the exception of its try block through
Catch_Rethrows(r, fallback) == r

\* catch (error) { console.error(...); return fallback }
Catch(r, fallback) == IF r.raised THEN Returned(r.ls, fallback, TRUE) ELSE r

\* the try block of getMCPList
GetMCPListTry(ls, f) ==
    IF "getList" \in f THEN Raised(ls)
    ELSE LET data == GetItem(ls, MCP_LIST_KEY)
         IN  IF data = null THEN Returned(ls, EmptyArray, FALSE)
             ELSE IF "parseList" \in f \/ ~Parses(data) THEN Raised(ls)
             ELSE Returned(ls, JSONParse(data), FALSE)

GetMCPListUnder(ls, f) ==
    IF ~hasWindow THEN Returned(ls, EmptyArray, FALSE)
    ELSE Catch(GetMCPListTry(ls, f), EmptyArray)

\* the try block of saveMCPToStorage
SaveTry(ls, mcp, f) ==
    IF "stringify" \in f \/ "setItem" \in f THEN Raised(ls)
    ELSE LET ls1  == SetItem(ls, KeyOf(mcp.id), StringifyMCP(mcp))
             list == GetMCPListUnder(ls1, f)
         IN  IF list.raised \/ list.value.kind # "array" THEN Raised(ls1)
             ELSE IF mcp.id \in Range(list.value.v) THEN Returned(ls1, undefined, list.caught)
             ELSE IF "setList" \in f THEN Raised(ls1)
             ELSE Returned(SetItem(ls1, MCP_LIST_KEY,
                                   StringifyList(Append(list.value.v, mcp.id))),
                           undefined, list.caught)

SaveUnder(ls, mcp, f) ==
    IF ~hasWindow THEN Returned(ls, undefined, FALSE)
    ELSE Catch(SaveTry(ls, mcp, f), undefined)

\* the try block of loadMCPFromStorage
LoadTry(ls, id, f) ==
    IF "getItem" \in f THEN Raised(ls)
    ELSE LET data == GetItem(ls, KeyOf(id))
         IN  IF data = null THEN Returned(ls, null, FALSE)
             ELSE IF "parse" \in f \/ ~Parses(data) THEN Raised(ls)
             ELSE Returned(ls, JSONParse(data), FALSE)

LoadUnder(ls, id, f) ==
    IF ~hasWindow THEN Returned(ls, null, FALSE)
    ELSE Catch(LoadTry(ls, id, f), null)

\* the try block of getAllMCPs
GetAllTry(ls, f) ==
    LET list == GetMCPListUnder(ls, f)
    IN  IF list.raised \/ list.value.kind # "array" THEN Raised(ls)
        ELSE LET loads == [i \in 1..Len(list.value.v) |-> LoadUnder(ls, list.value.v[i], f)]
             IN  IF \E i \in 1..Len(loads) : loads[i].raised THEN Raised(ls)
                 ELSE Returned(ls,
                               SelectSeq([i \in 1..Len(loads) |-> loads[i].value],
                                         LAMBDA mcp : mcp # null),
                               list.caught \/ \E i \in 1..Len(loads) : loads[i].caught)

GetAllUnder(ls, f) ==
    IF ~hasWindow THEN Returned(ls, <<>>, FALSE)
    ELSE Catch(GetAllTry(ls, f), <<>>)

\* the try block of deleteMCPFromStorage
DeleteTry(ls, id, f) ==
    IF "removeItem" \in f THEN Raised(ls)
    ELSE LET ls1  == RemoveItem(ls, KeyOf(id))
             list == GetMCPListUnder(ls1, f)
         IN  IF list.raised \/ list.value.kind # "array" THEN Raised(ls1)
             ELSE IF "setList" \in f THEN Raised(ls1)
             ELSE Returned(SetItem(ls1, MCP_LIST_KEY,
                                   StringifyList(SelectSeq(list.value.v,
                                                           LAMBDA mcpId : mcpId # id))),
                           undefined, list.caught)

DeleteUnder(ls, id, f) ==
    IF ~hasWindow THEN Returned(ls, undefined, FALSE)
    ELSE Catch(DeleteTry(ls, id, f), undefined)

\* what the caller of an operation sees of its end
Outcome(r) == IF r.raised THEN "threw" ELSE "returned"

\* one operation of the helper while the calls in f throw
Ended(op, id, r, f) ==
    [op |-> op, id |-> id, value |-> r.value, outcome |-> Outcome(r),
     caught |-> r.caught, clean |-> (f = {})]

saveMCPToStorage_faulty(mcp, f) ==
    /\ localStorage' = SaveUnder(localStorage, mcp, f).ls
    /\ storageOp' = Ended("save", mcp.id, SaveUnder(localStorage, mcp, f), f)
    /\ UNCHANGED <<hasWindow, lastSaved, corrupted, notStorage>>

loadMCPFromStorage_faulty(id, f) ==
    /\ storageOp' = Ended("load", id, LoadUnder(localStorage, id, f), f)
    /\ UNCHANGED <<hasWindow, localStorage, lastSaved, corrupted, notStorage>>

getAllMCPs_faulty(f) ==
    /\ storageOp' = Ended("getAll", "", GetAllUnder(localStorage, f), f)
    /\ UNCHANGED <<hasWindow, localStorage, lastSaved, corrupted, notStorage>>

deleteMCPFromStorage_faulty(id, f) ==
    /\ localStorage' = DeleteUnder(localStorage, id, f).ls
    /\ storageOp' = Ended("delete", id, DeleteUnder(localStorage, id, f), f)
    /\ UNCHANGED <<hasWindow, lastSaved, corrupted, notStorage>>

\* MCPIntegration values offered to saveMCPToStorage on the failing storage
FaultyStorageMCPs == {BaseMCP(id, "A") : id \in StorageIds}

StorageFaultsNext ==
    \/ \E m \in FaultyStorageMCPs, f \in SUBSET FaultSites : saveMCPToStorage_faulty(m, f)
    \/ \E i \in StorageIds, f \in SUBSET FaultSites : loadMCPFromStorage_faulty(i, f)
    \/ \E f \in SUBSET FaultSites : getAllMCPs_faulty(f)
    \/ \E i \in StorageIds, f \in SUBSET FaultSites : deleteMCPFromStorage_faulty(i, f)

(***************************************************************************)
(* Mock API client.  Every function suspends at `await new Promise(...     *)
(* setTimeout ...)` and runs the rest of its body in one step once the     *)
(* timer has fallen due; a timer never fires early and may fire late.      *)
(***************************************************************************)

\* Date.now() when the page starts
T0 == 1000

\* the calls made in one run
MaxCalls == 2

\* the setTimeout delays, in milliseconds
GetMCPDelay == 300

CreateDelay == 500

UpdateDelay == 500

DeleteDelay == 300

Digit(d) == CASE d = 0 -> "0" [] d = 1 -> "1" [] d = 2 -> "2" [] d = 3 -> "3"
              [] d = 4 -> "4" [] d = 5 -> "5" [] d = 6 -> "6" [] d = 7 -> "7"
              [] d = 8 -> "8" [] d = 9 -> "9"

\* Number.prototype.toString of a non-negative integer
RECURSIVE NumberToString(_)
NumberToString(n) == IF n < 10 THEN Digit(n) ELSE NumberToString(n \div 10) \o Digit(n % 10)

\* new Date().toISOString() at the instant t: a text that names the instant
ToISOString(t) == "T" \o NumberToString(t) \o "Z"

Seed(id, name, emoji, description, version, author, createdAt, updatedAt, stars, reviews, uses, globalPrompt, model, temperature, maxTokens) ==
    [id |-> id, name |-> name, emoji |-> emoji, description |-> description,
     version |-> version, format |-> "mcp", author |-> author,
     createdAt |-> createdAt, updatedAt |-> updatedAt, published |-> TRUE,
     stars |-> stars, reviews |-> reviews, uses |-> uses,
     apis |-> <<>>, tools |-> <<>>, prompts |-> <<>>, resources |-> <<>>,
     configuration |-> [globalPrompt |-> globalPrompt, model |-> model,
                        temperature |-> temperature, maxTokens |-> maxTokens]]

\* the seed list
InitialMockMCPs ==
    << Seed("1", "Stripe Payment Gateway", "credit card",
            "Process payments, manage subscriptions, and handle refunds",
            "1.0.0", "@johndoe", "2024-01-15", "2024-01-20", "4.8", "124", "2300",
            "You are a payment processing assistant.", "gpt-4", "0.7", "1000"),
       Seed("2", "Weather API", "sun behind cloud",
            "Get real-time weather data and forecasts for any location",
            "1.2.0", "@weatherdev", "2024-01-10", "2024-01-18", "4.6", "89", "1800",
            "You are a weather information assistant.", "gpt-4", "0.5", "800"),
       Seed("3", "GitHub Integration", "octopus",
            "Manage repositories, issues, and pull requests",
            "2.0.0", "@devtools", "2024-01-05", "2024-01-22", "4.9", "156", "3200",
            "You are a GitHub assistant.", "gpt-4-turbo", "0.6", "1200") >>

\* Array.prototype.findIndex by id: the first index, 0 when there is none (-1 in the code)
FindIndex(list, id) ==
    IF \E i \in 1..Len(list) : list[i].id = id
    THEN CHOOSE i \in 1..Len(list) :
            list[i].id = id /\ \A j \in 1..(i - 1) : list[j].id # id
    ELSE 0

\* mockMCPs.find((mcp) => mcp.id === id) || null
Find(list, id) == IF FindIndex(list, id) = 0 THEN null ELSE list[FindIndex(list, id)]

\* data.f || fallback for a string property
OrElse(data, f, fallback) ==
    IF f \in DOMAIN data /\ data[f] # "" THEN data[f] ELSE fallback

\* createMCP's newMCP without the overlay of the caller's fields
NewMCP_DefaultsOnly(data, t) ==
    [id |-> NumberToString(t),
     name |-> OrElse(data, "name", "New MCP"),
     description |-> OrElse(data, "description", ""),
     version |-> "1.0.0", format |-> "mcp", author |-> "@currentuser",
     createdAt |-> ToISOString(t), updatedAt |-> ToISOString(t),
     published |-> FALSE,
     apis |-> <<>>, tools |-> <<>>, prompts |-> <<>>, resources |-> <<>>,
     configuration |-> [globalPrompt |-> "", model |-> "gpt-4",
                        temperature |-> "0.7", maxTokens |-> "1000"]]

\* createMCP's newMCP: the defaults at the instant t, overlaid with data
NewMCP(data, t) ==
    Spread([id |-> NumberToString(t),
            name |-> OrElse(data, "name", "New MCP"),
            description |-> OrElse(data, "description", ""),
            version |-> "1.0.0", format |-> "mcp", author |-> "@currentuser",
            createdAt |-> ToISOString(t), updatedAt |-> ToISOString(t),
            published |-> FALSE,
            apis |-> <<>>, tools |-> <<>>, prompts |-> <<>>, resources |-> <<>>,
            configuration |-> [globalPrompt |-> "", model |-> "gpt-4",
                               temperature |-> "0.7", maxTokens |-> "1000"]],
           data)

\* the entry written back when the caller's updatedAt is let through
Merged_DataWins(old, data, t) == Spread(Spread(old, [updatedAt |-> ToISOString(t)]), data)

\* the entry updateMCP writes back at the instant t
Merged(old, data, t) == Spread(Spread(old, data), [updatedAt |-> ToISOString(t)])

\* the argument forkMCP hands to createMCP at the instant t
ForkData_KeepsName(original, t) ==
    Spread(original, [id |-> NumberToString(t), published |-> FALSE, author |-> "@currentuser"])

ForkData(original, t) ==
    Spread(original, [id |-> NumberToString(t), name |-> original.name \o " (Fork)",
                      published |-> FALSE, author |-> "@currentuser"])

\* mockMCPs.splice(index): everything from index on goes
Splice_DropsTail(list, index) == SubSeq(list, 1, index - 1)

\* mockMCPs.splice(index, 1)
Splice(list, index) == [i \in 1..(Len(list) - 1) |-> IF i < index THEN list[i] ELSE list[i + 1]]

NoData == <<>>

\* a call suspended at its await
Call(op, id, data, delay) ==
    [op |-> op, id |-> id, data |-> data,
     due |-> now + delay, phase |-> "first", original |-> null]

\* a finished step of a call
Done(c, outcome, value) ==
    [op |-> c.op, id |-> c.id, data |-> c.data, original |-> c.original,
     outcome |-> outcome, value |-> value, before |-> mockMCPs, at |-> now]

\* no step of a call has just run
NoStep == [op |-> "none"]

Start(c) ==
    /\ ncalls < MaxCalls
    /\ c \notin pending
    /\ pending' = pending \cup {c}
    /\ ncalls' = ncalls + 1
    /\ lastDone' = NoStep
    /\ UNCHANGED <<mockMCPs, now, notClient>>

\* the timer of c has fallen due
Due(c) == c \in pending /\ now >= c.due

ClientInit ==
    /\ mockMCPs = InitialMockMCPs
    /\ pending = {}
    /\ now = T0
    /\ ncalls = 0
    /\ lastDone = NoStep

\* time passes until some pending timer falls due
Tick ==
    /\ \E c \in pending : c.due > now /\ now' = c.due
    /\ lastDone' = NoStep
    /\ UNCHANGED <<mockMCPs, pending, ncalls, notClient>>

getMCP_call(id) == Start(Call("getMCP", id, NoData, GetMCPDelay))

getMCP_resume(c) ==
    /\ Due(c) /\ c.op = "getMCP"
    /\ pending' = pending \ {c}
    /\ lastDone' = Done(c, "resolved", Find(mockMCPs, c.id))
    /\ UNCHANGED <<mockMCPs, now, ncalls, notClient>>

createMCP_call(data) == Start(Call("createMCP", "", data, CreateDelay))

\* createMCP whose fork looks its source up again when it appends
createMCP_resume_RereadsSource(c) ==
    /\ Due(c)
    /\ c.op = "createMCP" \/ (c.op = "forkMCP" /\ c.phase = "create")
    /\ LET source == Find(mockMCPs, c.id)
           data == IF c.op = "createMCP" THEN c.data
                   ELSE IF source = null THEN null
                   ELSE Spread(ForkData(source, now), [id |-> c.data.id])
       IN  IF data = null
           THEN /\ mockMCPs' = mockMCPs
                /\ lastDone' = Done(c, "rejected", "MCP not found")
           ELSE /\ mockMCPs' = Append(mockMCPs, NewMCP(data, now))
                /\ lastDone' = Done(c, "resolved", NewMCP(data, now))
    /\ pending' = pending \ {c}
    /\ UNCHANGED <<now, ncalls, notClient>>

\* the body of createMCP after its await; forkMCP ends in the same body
createMCP_resume(c) ==
    /\ Due(c)
    /\ c.op = "createMCP" \/ (c.op = "forkMCP" /\ c.phase = "create")
    /\ mockMCPs' = Append(mockMCPs, NewMCP(c.data, now))
    /\ pending' = pending \ {c}
    /\ lastDone' = Done(c, "resolved", NewMCP(c.data, now))
    /\ UNCHANGED <<now, ncalls, notClient>>

apiClient_updateMCP_call(id, data) == Start(Call("updateMCP", id, data, UpdateDelay))

\* updateMCP that adds the entry when the id is not found
apiClient_updateMCP_resume_Upsert(c) ==
    /\ Due(c) /\ c.op \in {"updateMCP", "publishMCP"}
    /\ LET index == FindIndex(mockMCPs, c.id)
       IN  IF index # 0
           THEN /\ mockMCPs' = [mockMCPs EXCEPT ![index] = Merged(mockMCPs[index], c.data, now)]
                /\ lastDone' = Done(c, "resolved", Merged(mockMCPs[index], c.data, now))
           ELSE /\ mockMCPs' = Append(mockMCPs, Merged([id |-> c.id], c.data, now))
                /\ lastDone' = Done(c, "resolved", Merged([id |-> c.id], c.data, now))
    /\ pending' = pending \ {c}
    /\ UNCHANGED <<now, ncalls, notClient>>

\* the body of updateMCP after its await; publishMCP is a call of it
apiClient_updateMCP_resume(c) ==
    /\ Due(c) /\ c.op \in {"updateMCP", "publishMCP"}
    /\ LET index == FindIndex(mockMCPs, c.id)
       IN  IF index # 0
           THEN /\ mockMCPs' = [mockMCPs EXCEPT ![index] = Merged(mockMCPs[index], c.data, now)]
                /\ lastDone' = Done(c, "resolved", Merged(mockMCPs[index], c.data, now))
           ELSE /\ mockMCPs' = mockMCPs
                /\ lastDone' = Done(c, "rejected", "MCP not found")
    /\ pending' = pending \ {c}
    /\ UNCHANGED <<now, ncalls, notClient>>

deleteMCP_call(id) == Start(Call("deleteMCP", id, NoData, DeleteDelay))

\* deleteMCP that splices the index the id had when the array was first filled
deleteMCP_resume_StaleIndex(c) ==
    /\ Due(c) /\ c.op = "deleteMCP"
    /\ LET index == FindIndex(InitialMockMCPs, c.id)
       IN  mockMCPs' = IF index # 0 /\ index <= Len(mockMCPs)
                       THEN Splice(mockMCPs, index) ELSE mockMCPs
    /\ pending' = pending \ {c}
    /\ lastDone' = Done(c, "resolved", undefined)
    /\ UNCHANGED <<now, ncalls, notClient>>

\* the body of deleteMCP after its await
deleteMCP_resume(c) ==
    /\ Due(c) /\ c.op = "deleteMCP"
    /\ LET index == FindIndex(mockMCPs, c.id)
       IN  mockMCPs' = IF index # 0 THEN Splice(mockMCPs, index) ELSE mockMCPs
    /\ pending' = pending \ {c}
    /\ lastDone' = Done(c, "resolved", undefined)
    /\ UNCHANGED <<now, ncalls, notClient>>

publishMCP_call(id) == Start(Call("publishMCP", id, [published |-> TRUE], UpdateDelay))

forkMCP_call(id) == Start(Call("forkMCP", id, NoData, GetMCPDelay))

\* forkMCP after `await apiClient.getMCP(id)`: reject, or go on into createMCP
forkMCP_read(c) ==
    /\ Due(c) /\ c.op = "forkMCP" /\ c.phase = "first"
    /\ LET original == Find(mockMCPs, c.id)
       IN  IF original = null
           THEN /\ pending' = pending \ {c}
                /\ lastDone' = Done(c, "rejected", "MCP not found")
           ELSE /\ pending' = (pending \ {c}) \cup
                        {[c EXCEPT !.phase = "create", !.original = original,
                                   !.data = ForkData(original, now),
                                   !.due = now + CreateDelay]}
                /\ lastDone' = Done([c EXCEPT !.original = original], "read", original)
    /\ UNCHANGED <<mockMCPs, now, ncalls, notClient>>

(***************************************************************************)
(* Input sets of the mock client                                           *)
(***************************************************************************)

\* Partial<MCPIntegration> offered to createMCP
CreateDatas == {[name |-> "X"], [name |-> "Y"], [id |-> "a"]}

\* Partial<MCPIntegration> offered to updateMCP
UpdateDatas == {[name |-> "Y"], [updatedAt |-> "2000-01-01"], [id |-> "a"]}

\* the ids a caller passes: one it has seen in the collection (the first seed or an
\* entry made since; the other seeds stand by), or one that never was
CallerIds == (IdSet(mockMCPs) \ {"2", "3"}) \cup {"missing-id"}

ClientNext ==
    \/ Tick
    \/ \E id \in CallerIds : getMCP_call(id)
    \/ \E c \in pending : getMCP_resume(c)
    \/ \E data \in CreateDatas : createMCP_call(data)
    \/ \E c \in pending : createMCP_resume(c)
    \/ \E id \in CallerIds, data \in UpdateDatas : apiClient_updateMCP_call(id, data)
    \/ \E c \in pending : apiClient_updateMCP_resume(c)
    \/ \E id \in CallerIds : deleteMCP_call(id)
    \/ \E c \in pending : deleteMCP_resume(c)
    \/ \E id \in CallerIds : publishMCP_call(id)
    \/ \E id \in CallerIds : forkMCP_call(id)
    \/ \E c \in pending : forkMCP_read(c)

\* the same inputs without those that name an id of their own
CreateDatasNoId == {data \in CreateDatas : "id" \notin DOMAIN data}

UpdateDatasNoId == {data \in UpdateDatas : "id" \notin DOMAIN data}

\* the mock client used by callers that leave the ids to createMCP
ClientNextGeneratedIds ==
    \/ Tick
    \/ \E id \in CallerIds : getMCP_call(id)
    \/ \E c \in pending : getMCP_resume(c)
    \/ \E data \in CreateDatasNoId : createMCP_call(data)
    \/ \E c \in pending : createMCP_resume(c)
    \/ \E id \in CallerIds, data \in UpdateDatasNoId : apiClient_updateMCP_call(id, data)
    \/ \E c \in pending : apiClient_updateMCP_resume(c)
    \/ \E id \in CallerIds : deleteMCP_call(id)
    \/ \E c \in pending : deleteMCP_resume(c)
    \/ \E id \in CallerIds : publishMCP_call(id)
    \/ \E id \in CallerIds : forkMCP_call(id)
    \/ \E c \in pending : forkMCP_read(c)

(***************************************************************************)
(* HTTP proxy route.  A handler keeps nothing between two requests; the    *)
(* variable exchange records one request from its arrival to its answer:   *)
(* the requests sent on to the backend, what the backend did, the answer.  *)
(***************************************************************************)

\* request bodies and response bodies; "\xFF" is a body that is not UTF-8 text
RequestBodies == {"", "{}"}

ResponseBodies == {"", "{}", "\\xFF"}

\* response.text() and request.text(): the body decoded as UTF-8, what is no
\* UTF-8 replaced by U+FFFD
BodyText(body) == IF body = "\\xFF" THEN "\\uFFFD" ELSE body

\* statuses whose response has no body (Fetch standard, null body status)
NullBodyStatuses == {101, 103, 204, 205, 304}

\* the statuses the backend answers with
BackendStatuses == {200, 204, 404, 500}

\* fetch rejects: the backend cannot be reached
NetworkError == [failed |-> TRUE]

\* what the backend does with a forwarded request; contentType is what
\* response.headers.get('Content-Type') gives, "" when the header is missing
BackendOutcomes ==
    {NetworkError} \cup
    {[status |-> st, body |-> b, contentType |-> ct] :
        st \in BackendStatuses \ NullBodyStatuses, b \in ResponseBodies,
        ct \in {"", "text/plain"}} \cup
    {[status |-> st, body |-> "", contentType |-> ""] :
        st \in BackendStatuses \cap NullBodyStatuses}

CORSHeaders ==
    ("Access-Control-Allow-Origin" :> "*") @@
    ("Access-Control-Allow-Methods" :> "GET, POST, PUT, PATCH, DELETE, OPTIONS") @@
    ("Access-Control-Allow-Headers" :> "Content-Type")

\* NextResponse.json({ error: 'Proxy error', details: error.message }, { status: 500 })
ProxyError(message) ==
    [status |-> 500,
     body |-> "{\"error\":\"Proxy error\",\"details\":\"" \o message \o "\"}",
     headers |-> ("Content-Type" :> "application/json")]

\* new NextResponse(data, { status, headers }): the Response constructor throws
\* when a body, the empty text included, comes with a null body status
NewNextResponse(data, status, contentType) ==
    IF status \in NullBodyStatuses
    THEN [threw |-> "Invalid response status code"]
    ELSE [status |-> status, body |-> data,
          headers |-> ("Content-Type" :> (IF contentType = "" THEN "application/json"
                                          ELSE contentType)) @@ CORSHeaders]

\* the request fetch sends.  `body || undefined` sends no body when body was
\* left undefined and when it is the empty text; read says which it was
Outbound(method, read, body) ==
    [method |-> method,
     headers |-> ("Content-Type" :> "application/json"),
     hasBody |-> (read /\ body # ""),
     body |-> IF read THEN body ELSE ""]

\* one incoming request from its arrival to its answer.  readThrows: request.text()
\* rejects; backend: what fetch meets; textThrows: response.text() rejects
proxyRequest(method, requestBody, readThrows, backend, textThrows) ==
    /\ exchange' =
         LET reads == method # "GET" /\ method # "DELETE"
             sent  == <<Outbound(method, reads, BodyText(requestBody))>>
             base  == [op |-> "request", method |-> method, requestBody |-> requestBody,
                       backend |-> backend, textThrows |-> textThrows]
         IN  IF reads /\ readThrows
             THEN base @@ [outbound |-> <<>>, reply |-> ProxyError("body unusable")]
             ELSE IF backend = NetworkError
             THEN base @@ [outbound |-> sent, reply |-> ProxyError("fetch failed")]
             ELSE IF textThrows
             THEN base @@ [outbound |-> sent, reply |-> ProxyError("terminated")]
             ELSE LET response == NewNextResponse(BodyText(backend.body), backend.status,
                                                  backend.contentType)
                  IN  IF "threw" \in DOMAIN response
                      THEN base @@ [outbound |-> sent, reply |-> ProxyError(response.threw)]
                      ELSE base @@ [outbound |-> sent, reply |-> response]
    /\ UNCHANGED notProxy

GET(backend, textThrows) == proxyRequest("GET", "", FALSE, backend, textThrows)

POST(requestBody, readThrows, backend, textThrows) ==
    proxyRequest("POST", requestBody, readThrows, backend, textThrows)

PATCH(requestBody, readThrows, backend, textThrows) ==
    proxyRequest("PATCH", requestBody, readThrows, backend, textThrows)

DELETE(backend, textThrows) == proxyRequest("DELETE", "", FALSE, backend, textThrows)

PUT(requestBody, readThrows, backend, textThrows) ==
    proxyRequest("PUT", requestBody, readThrows, backend, textThrows)

\* the preflight answer
OPTIONS ==
    /\ exchange' = [op |-> "options", outbound |-> <<>>,
                    reply |-> [status |-> 200, body |-> null, headers |-> CORSHeaders]]
    /\ UNCHANGED notProxy

ProxyInit == exchange = [op |-> "none"]

ProxyNext ==
    \/ \E backend \in BackendOutcomes, textThrows \in BOOLEAN : GET(backend, textThrows)
    \/ \E requestBody \in RequestBodies, readThrows \in BOOLEAN,
          backend \in BackendOutcomes, textThrows \in BOOLEAN :
            POST(requestBody, readThrows, backend, textThrows)
    \/ \E requestBody \in RequestBodies, readThrows \in BOOLEAN,
          backend \in BackendOutcomes, textThrows \in BOOLEAN :
            PATCH(requestBody, readThrows, backend, textThrows)
    \/ \E backend \in BackendOutcomes, textThrows \in BOOLEAN : DELETE(backend, textThrows)
    \/ \E requestBody \in RequestBodies, readThrows \in BOOLEAN,
          backend \in BackendOutcomes, textThrows \in BOOLEAN :
            PUT(requestBody, readThrows, backend, textThrows)
    \/ OPTIONS

(***************************************************************************)
(* Properties of the client state store                                    *)
(***************************************************************************)

AddOps == {"addAPI", "addTool", "addPrompt"}

UpdateOps == {"updateAPI", "updateTool", "updatePrompt"}

DeleteOps == {"deleteAPI", "deleteTool", "deletePrompt"}

\* the elements of a collection that an operation on id does not target, in order
Untouched(s, id) == SelectSeq(s, LAMBDA e : e.id # id)

\* C1: every add/update/delete step on a child collection of a held integration
\* whose ids are distinct leaves exactly the expected ids (add: the old ids and
\* the added one; update: the old ids; delete: the old ids without the deleted
\* one), no id twice, and the untouched elements in their old relative order.
C1_ChildIdsExpectedAndDistinct ==
    [][ (/\ currentMCP # null
         /\ storeOp'.op \in AddOps \cup UpdateOps \cup DeleteOps
         /\ NoDuplicateIds(currentMCP[storeOp'.kind]))
        => LET old == currentMCP[storeOp'.kind]
               new == currentMCP'[storeOp'.kind]
               id  == storeOp'.id
           IN  /\ NoDuplicateIds(new)
               /\ IdSet(new) = IF storeOp'.op \in AddOps THEN IdSet(old) \cup {id}
                               ELSE IF storeOp'.op \in DeleteOps THEN IdSet(old) \ {id}
                               ELSE IdSet(old)
               /\ Untouched(new, id) = Untouched(old, id)
               /\ storeOp'.op \in AddOps => new[Len(new)].id = id
      ]_vars

\* C9: after setCurrentMCP(i) no node is selected and the held integration is i.
C9_SetCurrentClearsSelection ==
    storeOp.op = "setCurrentMCP" => (selectedNode = null /\ currentMCP = storeOp.arg)

\* C9 witness: setCurrentMCP acted while a node was selected
C9_Witness ==
    /\ storeOp.op = "setCurrentMCP"
    /\ storeOp.before.hadNode
    /\ selectedNode = null

\* C10: with no integration held, every operation other than setCurrentMCP
\* leaves currentMCP at null, and everything but selectNode leaves the selection.
C10_NoopWithoutIntegration ==
    [][ (currentMCP = null /\ storeOp'.op # "setCurrentMCP")
        => /\ currentMCP' = null
           /\ storeOp'.op # "selectNode" => selectedNode' = selectedNode
      ]_vars

\* C10 witness: a child operation acted while nothing was held and a node was selected
C10_Witness ==
    /\ storeOp.op \in AddOps \cup UpdateOps \cup DeleteOps \cup {"updateMCP"}
    /\ ~storeOp.before.hadMCP
    /\ storeOp.before.hadNode
    /\ currentMCP = null
    /\ selectedNode # null

(***************************************************************************)
(* Properties of the persistence helper                                    *)
(***************************************************************************)

\* JSON has a notation for every part of the value
RECURSIVE JSONFaithful(_)
JSONFaithful(obj) ==
    \A k \in DOMAIN obj :
        /\ k \in NumberFields => (obj[k] # undefined /\ obj[k] \notin NonFinite)
        /\ k = "configuration" => JSONFaithful(obj[k])

\* the value a load returns when it returns the object m itself
Loaded(m) == [kind |-> "object", v |-> m]

\* how often id occurs in the stored index list (0 when the index is no list)
IndexCount(ls, id) ==
    LET list == getMCPList(ls)
    IN  IF list.kind # "array" THEN 0
        ELSE Cardinality({i \in 1..Len(list.v) : list.v[i] = id})

\* C2 as stated: in a browser, a load of an id returns the value last saved
\* under it, whatever was saved or deleted under other ids since.
C2_RoundTripAnyValue ==
    hasWindow =>
        \A id \in DOMAIN lastSaved : LoadResult(localStorage, id) = Loaded(lastSaved[id])

\* C2 amended: the same, for the values JSON represents exactly.
C2_RoundTripJSONValues ==
    hasWindow =>
        \A id \in DOMAIN lastSaved :
            JSONFaithful(lastSaved[id])
                => LoadResult(localStorage, id) = Loaded(lastSaved[id])

\* C2 witness: a JSON-exact value is loaded back after a save or delete of another id
C2_Witness ==
    /\ hasWindow
    /\ storageOp.op \in {"save", "delete"}
    /\ \E id \in DOMAIN lastSaved :
        /\ id # storageOp.id
        /\ JSONFaithful(lastSaved[id])
        /\ LoadResult(localStorage, id) = Loaded(lastSaved[id])

\* C3: deleteMCPFromStorage(id) removes the record and the index entry of id:
\* a load of id then returns nothing, getAllMCPs lists no integration with that
\* id, and the records and index entries of the other ids are as before.
C3_DeleteRemovesRecordAndIndexEntry ==
    [][ (hasWindow /\ storageOp'.op = "delete")
        => LET id == storageOp'.id
           IN  /\ LoadResult(localStorage', id) = null
               /\ IndexCount(localStorage', id) = 0
               /\ \A i \in 1..Len(GetAllResult(localStorage')) :
                     LET mcp == GetAllResult(localStorage')[i]
                     IN  mcp.kind = "object" /\ mcp.v.id # id
               /\ \A j \in ((DOMAIN lastSaved) \cup corrupted) \ {id} :
                     /\ LoadResult(localStorage', j) = LoadResult(localStorage, j)
                     /\ IndexCount(localStorage', j) = IndexCount(localStorage, j)
      ]_vars

\* C4: with exactly one stored record corrupted, getAllMCPs returns exactly the
\* other saved integrations.
C4_GetAllSkipsCorruptEntry ==
    (hasWindow /\ Cardinality(corrupted) = 1)
        => LET all == GetAllResult(localStorage)
           IN  /\ Len(all) = Cardinality(DOMAIN lastSaved)
               /\ Range(all) = {Loaded(JSONOf(lastSaved[id])) : id \in DOMAIN lastSaved}

\* C5: every id saved (and not deleted since) occurs exactly once in the index list.
C5_IndexHoldsSavedIdOnce ==
    hasWindow =>
        \A id \in (DOMAIN lastSaved) \cup corrupted : IndexCount(localStorage, id) = 1

\* C17: in a browser with no damaged record, after every saveMCPToStorage and
\* every deleteMCPFromStorage the index is a list that holds exactly the ids
\* saved and not deleted since, each once, a newly saved id behind the others
\* and the rest in the order they had; a record is stored under an id exactly
\* when the index holds the id; and getAllMCPs returns, in index order, what
\* was last saved under each id (as JSON renders it).
C17_IndexMatchesRecords ==
    [][(/\ hasWindow
        /\ corrupted = {} /\ corrupted' = {}
        /\ storageOp'.op \in {"save", "delete"})
          => LET old == getMCPList(localStorage)
                 new == getMCPList(localStorage')
                 id  == storageOp'.id
             IN  /\ new.kind = "array"
                 /\ Range(new.v) = DOMAIN lastSaved'
                 /\ \A i, j \in 1..Len(new.v) : new.v[i] = new.v[j] => i = j
                 /\ old.kind = "array"
                 /\ new.v = IF storageOp'.op = "delete"
                               THEN SelectSeq(old.v, LAMBDA mcpId : mcpId # id)
                            ELSE IF id \in Range(old.v) THEN old.v
                            ELSE Append(old.v, id)
                 /\ \A i \in (DOMAIN lastSaved) \cup {id} :
                       (GetItem(localStorage', KeyOf(i)) # null) <=> (i \in Range(new.v))
                 /\ GetAllResult(localStorage') =
                       [i \in 1..Len(new.v) |-> Loaded(JSONOf(lastSaved'[new.v[i]]))]
      ]_vars

\* C12: whichever storage calls throw during a saveMCPToStorage,
\* loadMCPFromStorage, getAllMCPs or deleteMCPFromStorage, the operation
\* returns to its caller and does not throw: save and delete return nothing, a
\* load in which a call threw returns null, and getAllMCPs returns a list of
\* stored integrations no longer than the one it returns when nothing throws
\* (which is the list it does return when nothing throws).
C12_StorageFailuresNeverSurface ==
    (/\ storageOp.op \in {"save", "load", "getAll", "delete"}
     /\ "outcome" \in DOMAIN storageOp)
        => /\ storageOp.outcome = "returned"
           /\ storageOp.op \in {"save", "delete"} => storageOp.value = undefined
           /\ storageOp.op = "load" =>
                 /\ storageOp.caught => storageOp.value = null
                 /\ storageOp.clean => storageOp.value = LoadResult(localStorage, storageOp.id)
           /\ storageOp.op = "getAll" =>
                 LET all == GetAllResult(localStorage)
                 IN  /\ Len(storageOp.value) <= Len(all)
                     /\ \A i \in 1..Len(storageOp.value) : storageOp.value[i] \in Range(all)
                     /\ storageOp.clean => storageOp.value = all

\* C12 witness: a save during which a storage call threw has returned
C12_Witness ==
    /\ storageOp.op = "save"
    /\ "outcome" \in DOMAIN storageOp
    /\ ~storageOp.clean /\ storageOp.caught
    /\ storageOp.outcome = "returned"

\* C12 witness for getAllMCPs: a call threw and the list returned is shorter
\* than the stored one
C12_WitnessShorterList ==
    /\ storageOp.op = "getAll"
    /\ "outcome" \in DOMAIN storageOp
    /\ storageOp.caught
    /\ Len(storageOp.value) < Len(GetAllResult(localStorage))

(***************************************************************************)
(* Properties of the mock API client                                       *)
(***************************************************************************)

\* C6: an updateMCP or publishMCP whose id is not in the backing array when its
\* body runs rejects with 'MCP not found' and leaves the array as it was.
C6_UpdateMissingRejects ==
    (/\ lastDone.op \in {"updateMCP", "publishMCP"}
     /\ FindIndex(lastDone.before, lastDone.id) = 0)
        => /\ lastDone.outcome = "rejected"
           /\ lastDone.value = "MCP not found"
           /\ mockMCPs = lastDone.before

\* C6 witness: an updateMCP of an absent id has just run
C6_Witness ==
    /\ lastDone.op = "updateMCP"
    /\ FindIndex(lastDone.before, lastDone.id) = 0
    /\ lastDone.outcome = "rejected"

\* C7: a forkMCP(id) that finds id appends one new integration named
\* '<original name> (Fork)', unpublished, with an id other than the original's;
\* a forkMCP(id) that does not find id rejects with 'MCP not found' and appends
\* nothing, and forkMCP rejects in no other case.
C7_ForkResult ==
    lastDone.op = "forkMCP" =>
        /\ lastDone.outcome = "rejected"
            => /\ Find(lastDone.before, lastDone.id) = null
               /\ lastDone.value = "MCP not found"
               /\ mockMCPs = lastDone.before
        /\ lastDone.outcome = "read"
            => /\ Find(lastDone.before, lastDone.id) = lastDone.original
               /\ lastDone.original # null
               /\ mockMCPs = lastDone.before
        /\ lastDone.outcome = "resolved"
            => /\ mockMCPs = Append(lastDone.before, lastDone.value)
               /\ lastDone.original.id = lastDone.id
               /\ lastDone.value.name = lastDone.original.name \o " (Fork)"
               /\ lastDone.value.id # lastDone.original.id
               /\ lastDone.value.published = FALSE

\* C7 witness: a fork of a present integration has just been appended
C7_Witness ==
    /\ lastDone.op = "forkMCP"
    /\ lastDone.outcome = "resolved"
    /\ Len(mockMCPs) = Len(lastDone.before) + 1

\* C8: when createMCP({name: X}) has returned, the entry found under the
\* returned id is the returned integration: name X, version '1.0.0', empty
\* collections, not published.
C8_CreateThenGet ==
    (lastDone.op = "createMCP" /\ DOMAIN lastDone.data = {"name"})
        => LET found == Find(mockMCPs, lastDone.value.id)
           IN  /\ found = lastDone.value
               /\ found.name = lastDone.data.name
               /\ found.version = "1.0.0"
               /\ found.apis = <<>> /\ found.tools = <<>>
               /\ found.prompts = <<>> /\ found.resources = <<>>
               /\ found.published = FALSE

\* C11: a deleteMCP(id) resolves; when id is in the backing array it removes one
\* entry, which has that id, and leaves every other entry and their order as
\* they were; when id is not in the array it leaves the array as it was.
C11_DeleteRemovesOnlyThatEntry ==
    lastDone.op = "deleteMCP" =>
        LET before == lastDone.before
            index == FindIndex(before, lastDone.id)
        IN  /\ lastDone.outcome = "resolved"
            /\ index = 0 => mockMCPs = before
            /\ index # 0 =>
                  /\ before[index].id = lastDone.id
                  /\ Len(mockMCPs) = Len(before) - 1
                  /\ \A i \in 1..Len(mockMCPs) :
                        mockMCPs[i] = IF i < index THEN before[i] ELSE before[i + 1]

\* C11 witness: a deleteMCP has just removed an entry that was not the last one
C11_Witness ==
    /\ lastDone.op = "deleteMCP"
    /\ FindIndex(lastDone.before, lastDone.id) \in 1..(Len(lastDone.before) - 1)
    /\ Len(mockMCPs) = Len(lastDone.before) - 1

\* C11 witness of the other case: a deleteMCP of an id that is not there
C11_WitnessMissing ==
    /\ lastDone.op = "deleteMCP"
    /\ FindIndex(lastDone.before, lastDone.id) = 0
    /\ lastDone.outcome = "resolved"

\* the fields createMCP fills in by itself
CreateDefaultFields ==
    {"id", "name", "description", "version", "format", "author", "createdAt",
     "updatedAt", "published", "apis", "tools", "prompts", "resources",
     "configuration"}

\* C13: the integration createMCP(data) returns carries every field of data with
\* the caller's value, the id included, and the defaults in every other field;
\* it is appended at the end of the backing array and the entries that were
\* there stay as they were.
C13_CreateOverlaysCallerFields ==
    lastDone.op = "createMCP" =>
        LET new == lastDone.value
            data == lastDone.data
        IN  /\ lastDone.outcome = "resolved"
            /\ DOMAIN new = CreateDefaultFields \cup DOMAIN data
            /\ \A f \in DOMAIN data : new[f] = data[f]
            /\ "id" \notin DOMAIN data => new.id = NumberToString(lastDone.at)
            /\ "name" \notin DOMAIN data => new.name = "New MCP"
            /\ new.version = "1.0.0" /\ new.format = "mcp"
            /\ new.author = "@currentuser" /\ new.published = FALSE
            /\ new.apis = <<>> /\ new.tools = <<>>
            /\ new.prompts = <<>> /\ new.resources = <<>>
            /\ new.configuration = [globalPrompt |-> "", model |-> "gpt-4",
                                    temperature |-> "0.7", maxTokens |-> "1000"]
            /\ Len(mockMCPs) = Len(lastDone.before) + 1
            /\ mockMCPs[Len(mockMCPs)] = new
            /\ \A i \in 1..Len(lastDone.before) : mockMCPs[i] = lastDone.before[i]

\* C13 witness: a createMCP whose data names the id has just appended its entry
C13_Witness ==
    /\ lastDone.op = "createMCP"
    /\ "id" \in DOMAIN lastDone.data
    /\ mockMCPs[Len(mockMCPs)].id = lastDone.data.id

\* C14: an updateMCP(id, data) that finds id replaces the first entry with that
\* id, in place, by the old entry overlaid with data, with updatedAt set to the
\* instant of the update whatever data says; every other entry, the length and
\* the order stay as they were.
C14_UpdateMergesInPlace ==
    (/\ lastDone.op \in {"updateMCP", "publishMCP"}
     /\ FindIndex(lastDone.before, lastDone.id) # 0)
        => LET before == lastDone.before
               index == FindIndex(before, lastDone.id)
               old == before[index]
               data == lastDone.data
               new == mockMCPs[index]
           IN  /\ lastDone.outcome = "resolved"
               /\ \A i \in 1..(index - 1) : before[i].id # lastDone.id
               /\ Len(mockMCPs) = Len(before)
               /\ \A i \in (1..Len(before)) \ {index} : mockMCPs[i] = before[i]
               /\ DOMAIN new = DOMAIN old \cup DOMAIN data \cup {"updatedAt"}
               /\ new.updatedAt = ToISOString(lastDone.at)
               /\ \A f \in DOMAIN data \ {"updatedAt"} : new[f] = data[f]
               /\ \A f \in DOMAIN old \ (DOMAIN data \cup {"updatedAt"}) : new[f] = old[f]
               /\ lastDone.value = new

\* C14 witness: an updateMCP whose data names updatedAt has just been merged
C14_Witness ==
    /\ lastDone.op = "updateMCP"
    /\ lastDone.outcome = "resolved"
    /\ "updatedAt" \in DOMAIN lastDone.data
    /\ lastDone.data.updatedAt # ToISOString(lastDone.at)

WriteOps == {"createMCP", "updateMCP", "publishMCP", "deleteMCP", "forkMCP"}

\* C16: in every step of every interleaving of pending calls, the entry an
\* updateMCP replaces and the entry a deleteMCP removes carry the id the call
\* was given, every other entry stays where and as it was, a createMCP or a
\* finishing forkMCP adds its entry behind all the others, and no other step
\* changes the backing array; so no entry is lost but by a deleteMCP of its id.
C16_WritesHitOnlyTheMatchedEntry ==
    [][LET d == lastDone'
           n == Len(mockMCPs)
       IN  /\ d.op \in {"updateMCP", "publishMCP"} =>
                 /\ Len(mockMCPs') = n
                 /\ \A i \in 1..n :
                       mockMCPs'[i] # mockMCPs[i] => mockMCPs[i].id = d.id
           /\ d.op = "deleteMCP" =>
                 \/ mockMCPs' = mockMCPs
                 \/ \E i \in 1..n :
                       /\ mockMCPs[i].id = d.id
                       /\ Len(mockMCPs') = n - 1
                       /\ \A j \in 1..(n - 1) :
                             mockMCPs'[j] = IF j < i THEN mockMCPs[j] ELSE mockMCPs[j + 1]
           /\ (d.op = "createMCP" \/ (d.op = "forkMCP" /\ d.outcome = "resolved")) =>
                 /\ Len(mockMCPs') = n + 1
                 /\ mockMCPs'[n + 1] = d.value
                 /\ \A i \in 1..n : mockMCPs'[i] = mockMCPs[i]
           /\ (d.op \notin WriteOps \/ (d.op = "forkMCP" /\ d.outcome # "resolved")) =>
                 mockMCPs' = mockMCPs
      ]_vars

\* C16 witness: an updateMCP or a deleteMCP has just written while another
\* writing call, due at the same instant, still waits for its turn
C16_Witness ==
    /\ lastDone.op \in {"updateMCP", "deleteMCP"}
    /\ lastDone.outcome = "resolved"
    /\ mockMCPs # lastDone.before
    /\ \E c \in pending : c.op \in WriteOps /\ c.due <= now

\* C16 witness of a lost race: an updateMCP of an id that was in the array when
\* the call was made finds it gone when its body runs
C16_WitnessRaceLost ==
    /\ lastDone.op = "updateMCP"
    /\ lastDone.id # "missing-id"
    /\ lastDone.outcome = "rejected"

\* the fields forkMCP sets itself
ForkOwnFields == {"id", "name", "published", "author"}

\* C19: the integration a forkMCP appends is made from the source as the
\* fork's read step found it: every field but id, name, published and author
\* is the source's as read, the name is the read name with ' (Fork)', whatever
\* an updateMCP or deleteMCP did to the source since; once the read step has
\* found the source the fork does not reject; and neither step of the fork
\* changes or removes an entry that was in the array.
C19_ForkCopiesSourceAsRead ==
    lastDone.op = "forkMCP" =>
        /\ lastDone.outcome = "read" =>
              /\ lastDone.value = Find(lastDone.before, lastDone.id)
              /\ \E c \in pending :
                    /\ c.op = "forkMCP" /\ c.phase = "create" /\ c.id = lastDone.id
                    /\ c.original = lastDone.value
              /\ mockMCPs = lastDone.before
        /\ lastDone.original # null => lastDone.outcome \in {"read", "resolved"}
        /\ lastDone.outcome = "resolved" =>
              LET source == lastDone.original
                  fork == lastDone.value
              IN  /\ source # null
                  /\ DOMAIN fork = DOMAIN source
                  /\ \A f \in DOMAIN source \ ForkOwnFields : fork[f] = source[f]
                  /\ fork.name = source.name \o " (Fork)"
                  /\ Len(mockMCPs) = Len(lastDone.before) + 1
                  /\ mockMCPs[Len(mockMCPs)] = fork
                  /\ \A i \in 1..Len(lastDone.before) : mockMCPs[i] = lastDone.before[i]

\* C19 witness: a forkMCP has just appended its copy although an updateMCP
\* rewrote the source after the fork had read it
C19_Witness ==
    /\ lastDone.op = "forkMCP"
    /\ lastDone.outcome = "resolved"
    /\ Find(lastDone.before, lastDone.id) # null
    /\ Find(lastDone.before, lastDone.id) # lastDone.original

\* C19 witness of the deletion: the source was deleted after the fork had read it
C19_WitnessDeleted ==
    /\ lastDone.op = "forkMCP"
    /\ lastDone.outcome = "resolved"
    /\ Find(lastDone.before, lastDone.id) = null

\* C18: when no createMCP and no updateMCP is given an id by its caller, no two
\* entries of the backing array have the same id.
C18_IdsStayDistinct == NoDuplicateIds(mockMCPs)

(***************************************************************************)
(* Properties of the HTTP proxy route                                      *)
(***************************************************************************)

\* the outbound request came to nothing: fetch rejected, or the body broke off
OutboundFailed == exchange.backend = NetworkError \/ exchange.textThrows

\* C15: for every incoming GET, POST, PUT, PATCH or DELETE the route sends
\* exactly one request to the backend; when that request fails the answer is
\* status 500 with the error payload; when it succeeds the answer carries
\* the backend's status and the backend's body unchanged, and the three
\* cross-origin headers.
C15_OneRequestOutAnswerForwarded ==
    exchange.op = "request" =>
        /\ Len(exchange.outbound) = 1
        /\ exchange.outbound[1].method = exchange.method
        /\ OutboundFailed =>
              /\ exchange.reply.status = 500
              /\ exchange.reply \in {ProxyError("fetch failed"), ProxyError("terminated")}
        /\ ~OutboundFailed =>
              /\ exchange.reply.status = exchange.backend.status
              /\ exchange.reply.body = exchange.backend.body
              /\ \A h \in DOMAIN CORSHeaders :
                    /\ h \in DOMAIN exchange.reply.headers
                    /\ exchange.reply.headers[h] = CORSHeaders[h]

(***************************************************************************)
(* Specifications                                                          *)
(***************************************************************************)

Init == StoreInit /\ StorageInit /\ ClientInit /\ ProxyInit

Next == StoreNext \/ StorageNext \/ ClientNext \/ ProxyNext

Spec == Init /\ [][Next]_vars

InitBrowser == Init /\ hasWindow = TRUE

SpecStore == InitBrowser /\ [][StoreNext]_vars

SpecStorage == Init /\ [][StorageNext]_vars

SpecStorageFaults == Init /\ [][StorageFaultsNext]_vars

SpecClient == InitBrowser /\ [][ClientNext]_vars

SpecClientGeneratedIds == InitBrowser /\ [][ClientNextGeneratedIds]_vars

SpecProxy == InitBrowser /\ [][ProxyNext]_vars

====
